---- MODULE Spec2Model ----
(***************************************************************************)
(* DetectorRegistry (cluster metadata detection): the registry of detector *)
(* classes, the concurrent launch of their probes by detectForCluster, the *)
(* fold of the awaited outcomes into the running best-result Map, and the  *)
(* projection of that Map to the returned ClusterMetadata object.          *)
(***************************************************************************)
EXTENDS Integers, Sequences, FiniteSets, TLC

\* ------------------------------------------------------------------ bounds
MaxRegistry == 3
MaxAccuracy == 2
\* The registry length up to which two overlapping calls are followed.
MaxConcurrentRegistry == 1
\* The number of open repositories() frames up to which they are counted.
MaxNesting == 2

\* ------------------------------------------------------------ input domains
\* Detector classes that a caller may register, and the key each one claims.
\* A class registered twice gives two detectors claiming the same key.
DetectorClasses == {"A", "B"}

KeyOf(c) == IF c = "A" THEN "distribution" ELSE "cloudProvider"

Keys == {KeyOf(c) : c \in DetectorClasses}

Values == {"kind", "k3s"}

Accuracies == 1..MaxAccuracy

\* ClusterDetectionResult: { value, accuracy }.
DetectionResults == [kind : {"result"}, value : Values, accuracy : Accuracies]

\* What one element of `detections` settles to: the detector's detect()
\* resolves with a result, resolves with no result, or rejects; or the
\* constructor (or the read of detector.key) throws inside the async callback.
Outcomes ==
  DetectionResults \cup {[kind |-> "none"], [kind |-> "fail"], [kind |-> "ctor"]}

\* What is known of a detection when registry.map returns: the constructor
\* threw, or detect() was called and its promise is pending.
LaunchOutcomes == {[kind |-> "pending"], [kind |-> "ctor"]}

\* What a pending detect() settles to.
SettleOutcomes == Outcomes \ {[kind |-> "ctor"]}

\* The calls of detectForCluster that are tracked at once.
Callers == {1, 2}

\* The caller that makes its calls one after the other.
SoleCaller == {1}

\* --------------------------------------------------------------- mappings
EmptyMap == [k \in {} |-> 0]

Put(m, k, v) == [x \in (DOMAIN m) \cup {k} |-> IF x = k THEN v ELSE m[x]]

\* A JavaScript Map object: its entries live in the internal slot (mapData);
\* its own enumerable string-keyed properties (props) are a separate thing.
NewMap == [mapData |-> EmptyMap, props |-> EmptyMap]

MapHas(m, key) == key \in DOMAIN m.mapData

MapGet(m, key) == m.mapData[key]

\* Mutant: set drops the entries of the other keys.
MapSetAlone(m, key, data) == [m EXCEPT !.mapData = Put(EmptyMap, key, data)]

MapSet(m, key, data) == [m EXCEPT !.mapData = Put(m.mapData, key, data)]

\* Object.entries(obj): the own enumerable string-keyed properties of obj.
ObjectEntries(obj) == obj.props

VARIABLES
  registry,    \* the observable array of registered detector classes
  pc,          \* per call: "idle", "awaiting", "resolved" or "rejected"
  detections,  \* per call: the array of promises made by registry.map
  idx,         \* per call: the for..of position in detections (1-based)
  results,     \* per call: the running best-result Map
  returned,    \* per call: the object the returned promise resolved with
  foldLog,     \* per call: the indices of detections awaited so far, in order
  raced,       \* per call (history): a probe settled before an earlier-registered one
  snapshot,    \* per call (history): the registry content when the call began
  pcAtStart,   \* per call (history): where every caller stood when the call began
  added        \* history: the arguments of the add calls, in call order

\* The state of the DetectorRegistry and of the calls made on it.
detectorVars == <<registry, pc, detections, idx, results, returned, foldLog, raced,
                  snapshot, pcAtStart, added>>

\* HelmRepoManager (helm-repo-manager.ts) and the calls made on it.
VARIABLES
  helmEnv,       \* this.helmEnv: "null" or "set"
  configFile,    \* what the file named by HELM_REPOSITORY_CONFIG holds
  helmPc,        \* per call: the await the innermost repositories() is at
  helmKind,      \* per call: the public method called, with its argument
  helmNesting,   \* per call: how many repositories() frames are open
  helmResult,    \* per call: what the public method resolved with
  helmFailures,  \* per call (history): the steps that failed so far
  envParsed,     \* history: how many times parseHelmEnv() has resolved
  updatesRun,    \* history: how many times update() has been called
  updated,       \* history: an update() has resolved
  earlyRead      \* history: HELM_REPOSITORY_CONFIG was read before that

helmVars == <<helmEnv, configFile, helmPc, helmKind, helmNesting, helmResult,
              helmFailures, envParsed, updatesRun, updated, earlyRead>>

\* PodDetails (pod-details.tsx) and the loadMetrics calls in flight.
VARIABLES
  mounted,           \* componentDidMount has run (the reaction is installed)
  object,            \* this.props.object
  metrics,           \* this.metrics
  containerMetrics,  \* this.containerMetrics
  loadPc,            \* per loadMetrics call: the await it is at
  loadPod            \* per loadMetrics call: the local `pod`

podVars == <<mounted, object, metrics, containerMetrics, loadPc, loadPod>>

vars == <<detectorVars, helmVars, podVars>>

\* ---------------------------------------------------------------- helpers
\* A promise of `detections` rejects when detect() rejects or the constructor throws.
Rejects(d) == d.outcome.kind \in {"fail", "ctor"}

\* `data &&`: undefined / null is falsy, a result object is truthy.
Truthy(data) == data.kind = "result"

\* The promise for DetectorClass c: the async callback runs synchronously up to
\* its first await, so a constructor throw has already rejected it.
\* Mutant: the probes are not started by the map callback; none is in flight
\* when the loop begins to wait.
DetectionNotStarted(c, o) ==
  [cls |-> c, key |-> KeyOf(c), outcome |-> o, settled |-> (o.kind = "ctor"),
   invoked |-> 0]

\* invoked: how many times detect() was called on the instance.
Detection(c, o) ==
  [cls |-> c, key |-> KeyOf(c), outcome |-> o, settled |-> (o.kind = "ctor"),
   invoked |-> IF o.kind = "ctor" THEN 0 ELSE 1]

\* Mutant: the condition without the accuracy comparison (last result wins).
ShouldReplaceAlways(res, key, data) == Truthy(data)

\* The condition of the if statement in the fold.
ShouldReplace(res, key, data) ==
  Truthy(data) /\ (~MapHas(res, key) \/ MapGet(res, key).accuracy <= data.accuracy)

FoldBody(res, key, data) ==
  IF ShouldReplace(res, key, data) THEN MapSet(res, key, data) ELSE res

\* Mutant: the loop body without its try / catch.
TryFoldNoCatch(res, d) ==
  IF Rejects(d)
    THEN [results |-> res, escaped |-> TRUE]
    ELSE [results |-> FoldBody(res, d.key, d.outcome), escaped |-> FALSE]

\* One iteration of the for..of loop: try { await; fold } catch {}.
\* escaped: whether an exception leaves the loop body.
TryFold(res, d) ==
  IF Rejects(d)
    THEN [results |-> res, escaped |-> FALSE]
    ELSE [results |-> FoldBody(res, d.key, d.outcome), escaped |-> FALSE]

\* Object.fromEntries(iter.map(Object.entries(results), ([key, {value}]) => [key, value]))
Projection(res) ==
  LET entries == ObjectEntries(res)
  IN  [k \in DOMAIN entries |-> entries[k].value]

Range(f) == {f[i] : i \in DOMAIN f}

Unfolded(p) == (DOMAIN detections[p]) \ Range(foldLog[p])

\* Mutant: the loop takes whichever probe has completed (the latest-registered
\* of the settled ones) instead of walking the array in order.
AwaitedCompletionOrder(p) ==
  LET ready == {i \in Unfolded(p) : detections[p][i].settled}
  IN  IF ready = {} THEN 0 ELSE CHOOSE i \in ready : \A j \in ready : j <= i

\* Mutant: the loop starts at the second element and runs past the end.
AwaitedSkipsFirst(p) == idx[p] + 1

\* The element of detections the loop awaits next: for..of walks the array in order.
Awaited(p) == idx[p]

\* Mutant: a detector whose promise rejected is invoked again.
AfterFoldRetry(d) == IF Rejects(d) THEN [d EXCEPT !.invoked = @ + 1] ELSE d

\* What a loop iteration does to the awaited detection: nothing; catch {}
\* drops a rejection and the detector is not called again.
AfterFold(d) == d

\* Mutant: the wait gives up and the loop goes on without the outcome.
CanResumeTimedOut(p) == TRUE

\* `await detection`: the loop resumes once the awaited promise has settled.
CanResume(p) == detections[p][Awaited(p)].settled

\* Mutant: the running Map is one object shared by every call.
RunningMapShared(p) == results[1]

\* The Map the loop of call p folds into: the local `results` of that call.
RunningMap(p) == results[p]

\* Mutant: a class already registered is not registered again.
PushedUnique(reg, c) == IF c \in Range(reg) THEN reg ELSE Append(reg, c)

\* this.registry.push(detectorClass)
Pushed(reg, c) == Append(reg, c)

\* Mutant: a call in flight iterates the live registry, so an added class
\* joins it.
AfterAddLive(ds, c) ==
  IF ds = <<>> THEN ds ELSE Append(ds, Detection(c, [kind |-> "none"]))

\* What an add does to the detections array of a call in flight: nothing, the
\* array made by registry.map is an object of its own.
AfterAdd(ds, c) == ds

\* this.registry.map(...): the callback is applied to the content as it is now.
Snapshot(reg) == reg

\* Mutant: the detections are made by taking the classes out of the registry.
RegistryAfterMapDrained(reg) == <<>>

\* What this.registry.map(...) does to the registry: nothing, map builds a
\* new array and the call writes to the registry nowhere else.
RegistryAfterMap(reg) == reg

\* Mutant: the call suspends once before looking at the array.
AfterLaunchAlwaysAwait(n) == "awaiting"

\* Where the call stands once `detections` is built: the loop over an empty
\* array does not run and the function returns without suspending.
AfterLaunch(n) == IF n = 0 THEN "resolved" ELSE "awaiting"

\* ------------------------------------------------- HelmRepoManager: data
\* The callers of repositories() / repo() that are tracked at once.
HelmCallers == {1, 2}

RepoNames == {"bitnami", "stable"}

\* The repo that repositories() adds when none is listed.
DefaultRepo == "bitnami"

\* The file named by HELM_REPOSITORY_CONFIG: it cannot be read or is not YAML
\* (also: the path is undefined), it holds a scalar or nothing, it holds an
\* object without a repositories list, or it holds a list of repositories.
DamagedConfigs == {[kind |-> "unreadable"], [kind |-> "scalar"], [kind |-> "noList"]}

ListConfig(repos) == [kind |-> "list", repositories |-> repos]

\* readConfig(): the parsed file when it is a non-null object, and otherwise
\* (also when readFile or yaml.load throws) { repositories: [] }.
ReadConfig(file) ==
  CASE file.kind = "unreadable" -> [hasList |-> TRUE, repositories |-> <<>>]
    [] file.kind = "scalar"     -> [hasList |-> TRUE, repositories |-> <<>>]
    [] file.kind = "noList"     -> [hasList |-> FALSE]
    [] file.kind = "list"       -> [hasList |-> TRUE, repositories |-> file.repositories]

\* repositories.map(repo => ({ ...repo, cacheFilePath: `${cache}/${name}-index.yaml` }))
WithCachePath(repos) ==
  [i \in DOMAIN repos |->
     [name |-> repos[i],
      cacheFilePath |-> <<"HELM_REPOSITORY_CACHE", "/", repos[i], "-index.yaml">>]]

\* repos.find(repo => repo.name === name)
Find(repos, name) ==
  LET hits == {i \in DOMAIN repos : repos[i].name = name}
  IN  IF hits = {} THEN "undefined"
      ELSE repos[CHOOSE i \in hits : \A j \in hits : i <= j]

\* The public methods: repositories() and repo(name).
HelmMethods ==
  {[method |-> "repositories"]} \cup [method : {"repo"}, name : RepoNames]

\* What the public method resolves with when repositories() resolves with repos.
Resolution(kind, repos) ==
  IF kind.method = "repo" THEN Find(repos, kind.name) ELSE repos

\* The file after `helm repo add name url` has written to it.
WithRepo(file, name) ==
  IF file.kind = "list"
    THEN IF \E i \in DOMAIN file.repositories : file.repositories[i] = name
           THEN file
           ELSE ListConfig(Append(file.repositories, name))
    ELSE ListConfig(<<name>>)

\* The file after `helm repo remove name`.
WithoutRepo(file, name) ==
  ListConfig(SelectSeq(file.repositories, LAMBDA r : r # name))

\* protected helmEnv: HelmEnv | null = null; no call is in flight; helm has
\* not written its repository file yet.
HelmInit ==
  /\ helmEnv = "null"
  /\ configFile = [kind |-> "unreadable"]
  /\ helmPc = [p \in HelmCallers |-> "idle"]
  /\ helmKind = [p \in HelmCallers |-> [method |-> "none"]]
  /\ helmNesting = [p \in HelmCallers |-> 0]
  /\ helmResult = [p \in HelmCallers |-> "none"]
  /\ helmFailures = [p \in HelmCallers |-> {}]
  /\ envParsed = 0
  /\ updatesRun = 0
  /\ updated = FALSE
  /\ earlyRead = FALSE

\* ------------------------------------------------------ PodDetails: data
Pods == {"podA", "podB"}

\* The pod the details are opened for.
FirstPod == "podA"

\* The loadMetrics calls that are tracked at once.
Loads == {1, 2}

\* getMetricsForPods([pod], pod.getNs(), selector): the metrics of that pod.
GetMetricsForPods(pod, selector) ==
  [kind |-> "metrics", pod |-> pod, selector |-> selector]

\* A field that holds no metrics: never assigned, or reset by the reaction.
Undefined == [kind |-> "undefined"]

Null == [kind |-> "null"]

\* The component as constructed: the observable fields are not initialised.
PodInit ==
  /\ mounted = FALSE
  /\ object = FirstPod
  /\ metrics = Undefined
  /\ containerMetrics = Undefined
  /\ loadPc = [l \in Loads |-> "idle"]
  /\ loadPod = [l \in Loads |-> "none"]

\* ------------------------------------------------------------------- Init
Init ==
  /\ HelmInit
  /\ PodInit
  /\ registry = <<>>
  /\ pc = [p \in Callers |-> "idle"]
  /\ detections = [p \in Callers |-> <<>>]
  /\ idx = [p \in Callers |-> 1]
  /\ results = [p \in Callers |-> NewMap]
  /\ returned = [p \in Callers |-> EmptyMap]
  /\ foldLog = [p \in Callers |-> <<>>]
  /\ raced = [p \in Callers |-> FALSE]
  /\ snapshot = [p \in Callers |-> <<>>]
  /\ pcAtStart = [p \in Callers |-> [q \in Callers |-> "idle"]]
  /\ added = <<>>

\* ---------------------------------------------------------------- actions
\* add(detectorClass): push and return this.
AddUpTo(c, n) ==
  /\ Len(registry) < n
  /\ registry' = Pushed(registry, c)
  /\ added' = Append(added, c)
  /\ detections' = [p \in Callers |-> AfterAdd(detections[p], c)]
  /\ UNCHANGED <<pc, idx, results, returned, foldLog, raced, snapshot, pcAtStart>>
  /\ UNCHANGED <<helmVars, podVars>>

Add(c) == AddUpTo(c, MaxRegistry)

\* detectForCluster(cluster), up to its first suspension: new Map, registry.map
\* instantiates every detector and starts its detect(); o tells which
\* constructors throw.
DetectForCluster(p) ==
  /\ pc[p] = "idle"
  /\ \E o \in [1..Len(Snapshot(registry)) -> LaunchOutcomes] :
       LET ds == [i \in 1..Len(Snapshot(registry)) |->
                    Detection(Snapshot(registry)[i], o[i])]
           st == AfterLaunch(Len(ds))
       IN  /\ detections' = [detections EXCEPT ![p] = ds]
           /\ pc' = [pc EXCEPT ![p] = st]
           /\ returned' = [returned EXCEPT ![p] =
                             IF st = "resolved" THEN Projection(NewMap) ELSE EmptyMap]
  /\ results' = [results EXCEPT ![p] = NewMap]
  /\ idx' = [idx EXCEPT ![p] = 1]
  /\ foldLog' = [foldLog EXCEPT ![p] = <<>>]
  /\ raced' = [raced EXCEPT ![p] = FALSE]
  /\ snapshot' = [snapshot EXCEPT ![p] = registry]
  /\ pcAtStart' = [pcAtStart EXCEPT ![p] = pc]
  /\ registry' = RegistryAfterMap(registry)
  /\ UNCHANGED <<added, helmVars, podVars>>

\* A probe in flight settles: detect() resolves with a result or with none,
\* or rejects.
Settle(p, i) ==
  /\ pc[p] = "awaiting"
  /\ i \in DOMAIN detections[p]
  /\ ~detections[p][i].settled
  /\ detections[p][i].invoked > 0
  /\ \E o \in SettleOutcomes :
       detections' = [detections EXCEPT ![p][i] =
                        [@ EXCEPT !.outcome = o, !.settled = TRUE]]
  /\ raced' = [raced EXCEPT ![p] =
                 @ \/ \E j \in 1..(i - 1) : ~detections[p][j].settled]
  /\ UNCHANGED <<registry, pc, idx, results, returned, foldLog,
                 snapshot, pcAtStart, added>>
  /\ UNCHANGED <<helmVars, podVars>>

\* The awaited promise has settled: the loop body runs; after the last element
\* the projection is built and the call returns.
FoldStep(p) ==
  /\ pc[p] = "awaiting"
  /\ Awaited(p) \in DOMAIN detections[p]
  /\ CanResume(p)
  /\ LET r == TryFold(RunningMap(p), detections[p][Awaited(p)])
         last == idx[p] = Len(detections[p])
     IN  /\ results' = [results EXCEPT ![p] = r.results]
         /\ foldLog' = [foldLog EXCEPT ![p] = Append(@, Awaited(p))]
         /\ idx' = [idx EXCEPT ![p] = @ + 1]
         /\ pc' = [pc EXCEPT ![p] =
                     IF r.escaped THEN "rejected"
                     ELSE IF last THEN "resolved" ELSE "awaiting"]
         /\ returned' = [returned EXCEPT ![p] =
                           IF ~r.escaped /\ last THEN Projection(r.results) ELSE @]
  /\ detections' = [detections EXCEPT ![p][Awaited(p)] = AfterFold(@)]
  /\ UNCHANGED <<registry, raced, snapshot, pcAtStart, added>>
  /\ UNCHANGED <<helmVars, podVars>>

\* The caller has taken the outcome of the call; the call's locals are gone.
Collect(p) ==
  /\ pc[p] \in {"resolved", "rejected"}
  /\ pc' = [pc EXCEPT ![p] = "idle"]
  /\ detections' = [detections EXCEPT ![p] = <<>>]
  /\ idx' = [idx EXCEPT ![p] = 1]
  /\ results' = [results EXCEPT ![p] = NewMap]
  /\ returned' = [returned EXCEPT ![p] = EmptyMap]
  /\ foldLog' = [foldLog EXCEPT ![p] = <<>>]
  /\ raced' = [raced EXCEPT ![p] = FALSE]
  /\ snapshot' = [snapshot EXCEPT ![p] = <<>>]
  /\ pcAtStart' = [pcAtStart EXCEPT ![p] = [q \in Callers |-> "idle"]]
  /\ UNCHANGED <<registry, added, helmVars, podVars>>

\* One caller, whose calls follow one another, and adds at any time.
Next ==
  \/ \E c \in DetectorClasses : Add(c)
  \/ \E p \in SoleCaller : DetectForCluster(p)
  \/ \E p \in SoleCaller, i \in 1..MaxRegistry : Settle(p, i)
  \/ \E p \in SoleCaller : FoldStep(p)
  \/ \E p \in SoleCaller : Collect(p)

Spec == Init /\ [][Next]_vars

\* Two callers, one call each, which may overlap or follow one another, on a
\* short registry. The callers are alike: the one that calls first is caller 1.
NextConcurrent ==
  \/ \E c \in DetectorClasses : AddUpTo(c, MaxConcurrentRegistry)
  \/ \E p \in Callers :
       (\A q \in Callers : q < p => pc[q] # "idle") /\ DetectForCluster(p)
  \/ \E p \in Callers, i \in 1..MaxConcurrentRegistry : Settle(p, i)
  \/ \E p \in Callers : FoldStep(p)

SpecConcurrent == Init /\ [][NextConcurrent]_vars

\* A step of a call in flight: a probe of it settles or its loop resumes.
Progress(p) == FoldStep(p) \/ \E i \in 1..MaxRegistry : Settle(p, i)

\* A call in flight is not held up for ever while a probe of it can settle or
\* its loop can resume: every probe settles in the end, and the event loop
\* runs a continuation whose promise has settled.
Fairness == \A p \in SoleCaller : WF_vars(Progress(p))

SpecLive == Spec /\ Fairness

\* -------------------------------------------------- the pass as a function
\* detectForCluster run to its end on settled detections ds, from element i
\* with running Map res: the loop in array order, then the projection.
RECURSIVE FoldFrom(_, _, _)
FoldFrom(ds, i, res) ==
  IF i > Len(ds)
    THEN [status |-> "resolved", results |-> res, returned |-> Projection(res)]
    ELSE LET r == TryFold(res, ds[i])
         IN  IF r.escaped
               THEN [status |-> "rejected", results |-> r.results, returned |-> EmptyMap]
               ELSE FoldFrom(ds, i + 1, r.results)

RunPass(ds) == FoldFrom(ds, 1, NewMap)

\* ------------------------------------------------------ claim vocabulary
Ended(p) == pc[p] \in {"resolved", "rejected"}

Resolved(p) == pc[p] = "resolved"

Succeeded(d) == d.outcome.kind = "result"

\* The detectors of call p that claimed key k and returned a result.
Contributors(p, k) ==
  {i \in DOMAIN detections[p] : detections[p][i].key = k /\ Succeeded(detections[p][i])}

\* Those of them whose accuracy is maximal.
Best(p, k) ==
  {i \in Contributors(p, k) :
     \A j \in Contributors(p, k) :
       detections[p][j].outcome.accuracy <= detections[p][i].outcome.accuracy}

Latest(S) == CHOOSE i \in S : \A j \in S : j <= i

\* The key -> value view of the running Map (what the projection is meant to give).
ValueView(res) == [k \in DOMAIN res.mapData |-> res.mapData[k].value]

\* The properties of a key -> value mapping m against the outcomes of call p.
PresentIffContributed(m, p) ==
  \A k \in Keys : (k \in DOMAIN m) <=> (Contributors(p, k) # {})

HighestAccuracyWins(m, p) ==
  \A k \in Keys :
    Cardinality(Contributors(p, k)) >= 2 =>
      /\ k \in DOMAIN m
      /\ \E i \in Best(p, k) : m[k] = detections[p][i].outcome.value

LatestWinsTie(m, p) ==
  \A k \in Keys :
    Cardinality(Best(p, k)) >= 2 =>
      /\ k \in DOMAIN m
      /\ m[k] = detections[p][Latest(Best(p, k))].outcome.value

SoleContributorWins(m, p) ==
  \A k \in Keys :
    \A i \in Contributors(p, k) :
      Contributors(p, k) = {i} =>
        k \in DOMAIN m /\ m[k] = detections[p][i].outcome.value

SomeDetectFailed(p) == \E i \in DOMAIN detections[p] : detections[p][i].outcome.kind = "fail"

FailureIsolated(m, p) ==
  SomeDetectFailed(p) =>
    /\ Range(foldLog[p]) = DOMAIN detections[p]
    /\ \A k \in Keys : Contributors(p, k) # {} => k \in DOMAIN m
    /\ \A k \in DOMAIN m : m[k] \in Values

\* ---------------------------------------- the running Map (not the output)
\* The fold itself keeps the merge policy: these hold of the running Map when
\* the call ends, whatever becomes of it in the projection.
RunningMapMerged ==
  \A p \in Callers :
    Resolved(p) =>
      LET m == ValueView(results[p])
      IN  /\ PresentIffContributed(m, p)
          /\ HighestAccuracyWins(m, p)
          /\ LatestWinsTie(m, p)
          /\ SoleContributorWins(m, p)
          /\ FailureIsolated(m, p)

\* ----------------------------------------------------------------- claims
\* C1: when a call has returned, a key is present in the returned mapping if
\* and only if at least one detector with that key returned a result.
C1_KeyPresentIffContributed ==
  \A p \in Callers : Resolved(p) => PresentIffContributed(returned[p], p)

\* C2: when several detectors contribute to a key, the returned mapping holds
\* for that key the value of a contribution of maximal accuracy.
C2_HighestAccuracyWins ==
  \A p \in Callers : Resolved(p) => HighestAccuracyWins(returned[p], p)

\* C3: when several contributions to a key share the maximal accuracy, the
\* returned mapping holds the value of the latest-registered of them.
C3_LatestWinsTie ==
  \A p \in Callers : Resolved(p) => LatestWinsTie(returned[p], p)

\* C4: the returned mapping has exactly the keys of the running Map as the
\* fold left it, each mapped to the value field of the stored result.
C4_ProjectionKeepsEntries ==
  \A p \in Callers : Resolved(p) => returned[p] = ValueView(results[p])

\* C5: when a detector's detect() fails, every other outcome is still folded,
\* the other detectors' contributions appear in the returned mapping, and the
\* returned mapping holds nothing but detected values.
C5_FailureIsolated ==
  \A p \in Callers : Resolved(p) => FailureIsolated(returned[p], p)

\* C6: a call never rejects, and when every detector fails it returns an
\* empty mapping (from an empty running Map).
C6_PassNeverFails ==
  \A p \in Callers :
    /\ pc[p] # "rejected"
    /\ (Resolved(p) /\ \A i \in DOMAIN detections[p] : Rejects(detections[p][i])) =>
         returned[p] = EmptyMap /\ results[p] = NewMap

C6_AllFailedReturned ==
  \E p \in Callers :
    /\ Resolved(p)
    /\ Len(detections[p]) >= 2
    /\ \A i \in DOMAIN detections[p] : detections[p][i].outcome.kind = "fail"

\* C7: the outcome of a call (its success, its running Map and the returned
\* mapping) is the function RunPass of the registration order and the
\* per-detector outcomes alone, whatever the order in which the probes settled.
C7_CompletionOrderIrrelevant ==
  \A p \in Callers :
    Ended(p) =>
      [status |-> pc[p], results |-> results[p], returned |-> returned[p]]
        = RunPass(detections[p])

\* A call has returned after a later-registered probe settled before an earlier
\* one, with two equally accurate contributions of different values to one key.
C7_RacedTieReturned ==
  \E p \in Callers :
    /\ Resolved(p)
    /\ raced[p]
    /\ \E k \in Keys : \E i, j \in Best(p, k) :
         detections[p][i].outcome.value # detections[p][j].outcome.value

\* C8: when exactly one detector contributes to a key, the returned mapping
\* holds that key with that detector's value.
C8_SoleContributorWins ==
  \A p \in Callers : Resolved(p) => SoleContributorWins(returned[p], p)

\* C9: a call made on an empty registry creates no detection, does not
\* suspend, and has returned an empty mapping when its first step ends.
C9_EmptyRegistryReturnsEmpty ==
  [][\A p \in Callers :
       (pc[p] = "idle" /\ pc'[p] # "idle" /\ registry = <<>>) =>
         /\ pc'[p] = "resolved"
         /\ detections'[p] = <<>>
         /\ foldLog'[p] = <<>>
         /\ returned'[p] = EmptyMap]_vars

C9_EmptyRegistryCallReturned ==
  \E p \in Callers : Resolved(p) /\ registry = <<>> /\ detections[p] = <<>>

\* The detections of call p with the outcome of element i replaced by o.
WithOutcome(p, i, o) == [detections[p] EXCEPT ![i].outcome = o]

\* C10: replacing one detector's "no result" by a failure of detect(), or the
\* reverse, leaves the success of the call, its running Map and the returned
\* mapping as they are.
C10_NoResultSameAsFailure ==
  \A p \in Callers :
    Ended(p) =>
      \A i \in DOMAIN detections[p] :
        detections[p][i].outcome.kind \in {"none", "fail"} =>
          LET other == IF detections[p][i].outcome.kind = "none"
                         THEN [kind |-> "fail"] ELSE [kind |-> "none"]
          IN  RunPass(WithOutcome(p, i, other))
                = [status |-> pc[p], results |-> results[p], returned |-> returned[p]]

C10_NoResultAndFailureReturned ==
  \E p \in Callers :
    /\ Resolved(p)
    /\ \E i, j, c \in DOMAIN detections[p] :
         /\ detections[p][i].outcome.kind = "none"
         /\ detections[p][j].outcome.kind = "fail"
         /\ Succeeded(detections[p][c])

\* The classes of the detectors a call instantiated, in array order.
ClassesOf(ds) == [i \in DOMAIN ds |-> ds[i].cls]

IsPrefix(a, b) == Len(a) <= Len(b) /\ \A i \in DOMAIN a : a[i] = b[i]

InOrder(n) == [i \in 1..n |-> i]

Count(c, seq) == Cardinality({i \in DOMAIN seq : seq[i] = c})

\* C11: the detectors a call instantiates and folds are exactly the registry
\* content at the moment the call began, in that order, whatever is added
\* while the call is in flight; the registry only grows past that content.
C11_PassRunsSnapshot ==
  \A p \in Callers :
    pc[p] # "idle" =>
      /\ ClassesOf(detections[p]) = snapshot[p]
      /\ IsPrefix(snapshot[p], registry)
      /\ IsPrefix(foldLog[p], InOrder(Len(snapshot[p])))
      /\ Resolved(p) => foldLog[p] = InOrder(Len(snapshot[p]))

\* A call in flight has folded an outcome after a class was added behind it.
C11_AddedWhileInFlight ==
  \E p \in Callers :
    /\ pc[p] = "awaiting"
    /\ snapshot[p] # <<>>
    /\ Len(registry) > Len(snapshot[p])
    /\ foldLog[p] # <<>>

\* C12: the registry is the sequence of the added classes in call order,
\* duplicates kept; a class registered m times is instantiated m times by a
\* call, and each instance is folded once, as RunPass folds them.
C12_RegistryIsAddSequence ==
  /\ registry = added
  /\ \A p \in Callers :
       pc[p] # "idle" =>
         /\ \A c \in DetectorClasses :
              Count(c, ClassesOf(detections[p])) = Count(c, snapshot[p])
         /\ Resolved(p) =>
              /\ Range(foldLog[p]) = DOMAIN detections[p]
              /\ Len(foldLog[p]) = Len(detections[p])
              /\ results[p] = RunPass(detections[p]).results

\* A call has returned on a registry holding one class twice, both instances
\* having returned a result.
C12_DuplicateBothContributed ==
  \E p \in Callers :
    /\ Resolved(p)
    /\ registry = snapshot[p]
    /\ \E i, j \in DOMAIN detections[p] :
         /\ i # j
         /\ detections[p][i].cls = detections[p][j].cls
         /\ Succeeded(detections[p][i])
         /\ Succeeded(detections[p][j])

\* Calls p and q were in flight at the same time.
Overlapped(p, q) == pcAtStart[p][q] = "awaiting" \/ pcAtStart[q][p] = "awaiting"

\* C13: with two callers on one registry, each call has its own detections
\* (one per class of its own snapshot) and its own running Map, which at every
\* moment is the fold of the outcomes that call has awaited so far; when the
\* call ends, its success, running Map and returned mapping are RunPass of
\* its own detections, whatever the other call did.
C13_PassesIndependent ==
  \A p \in Callers :
    /\ pc[p] # "idle" =>
         /\ ClassesOf(detections[p]) = snapshot[p]
         /\ results[p] = RunPass(SubSeq(detections[p], 1, Len(foldLog[p]))).results
    /\ Ended(p) =>
         [status |-> pc[p], results |-> results[p], returned |-> returned[p]]
           = RunPass(detections[p])

\* Two overlapping calls on the same registry content have both returned, the
\* detector having failed in one and returned a result in the other.
C13_OverlappedCallsDiffer ==
  \E p, q \in Callers :
    /\ p # q
    /\ Resolved(p) /\ Resolved(q)
    /\ Overlapped(p, q)
    /\ snapshot[p] = snapshot[q]
    /\ \E i \in DOMAIN detections[p] :
         /\ detections[p][i].outcome.kind = "fail"
         /\ Succeeded(detections[q][i])

\* detect() has been called on the detector of element i of call p.
Started(p, i) == detections[p][i].invoked > 0

InFlight(p, i) == Started(p, i) /\ ~detections[p][i].settled

\* C14: whenever a call waits for a probe, detect() has been called on every
\* detector that was constructed; a probe that is not in flight has settled.
C14_AllStartedBeforeWaiting ==
  \A p \in Callers :
    pc[p] = "awaiting" =>
      \A i \in DOMAIN detections[p] :
        /\ Started(p, i) \/ detections[p][i].outcome.kind = "ctor"
        /\ InFlight(p, i) \/ detections[p][i].settled

\* A call over the full registry waits with every probe in flight at once.
C14_AllInFlightAtOnce ==
  \E p \in Callers :
    /\ pc[p] = "awaiting"
    /\ foldLog[p] = <<>>
    /\ Len(detections[p]) = MaxRegistry
    /\ \A i \in DOMAIN detections[p] : InFlight(p, i)

\* C15: the outcomes are folded in registration order: the i-th loop
\* iteration takes element i, so element i is folded only after 1..i-1.
C15_FoldInRegistrationOrder ==
  \A p \in Callers : foldLog[p] = InOrder(Len(foldLog[p]))

\* A later-registered probe settled first and every outcome has been folded.
C15_RacedAllFolded ==
  \E p \in Callers :
    /\ raced[p]
    /\ Len(foldLog[p]) = Len(detections[p])
    /\ Len(detections[p]) >= 2

\* C16 as stated: nothing is folded while a probe of the call is unsettled.
C16_FoldOnlyAfterAllSettled ==
  \A p \in Callers :
    foldLog[p] # <<>> => \A i \in DOMAIN detections[p] : detections[p][i].settled

\* C16 as amended: an outcome is folded only once its own probe and every
\* earlier-registered probe have settled; later ones may still be in flight.
C16_FoldAfterOwnAndEarlierSettled ==
  \A p \in Callers :
    \A i \in Range(foldLog[p]) :
      \A j \in 1..i : j \in DOMAIN detections[p] /\ detections[p][j].settled

\* An outcome has been folded while a later-registered probe is in flight.
C16_FoldedWithProbeInFlight ==
  \E p \in Callers :
    /\ foldLog[p] # <<>>
    /\ \E i \in DOMAIN detections[p] : InFlight(p, i)

\* C17: a call does not end while a probe of it is unsettled.
C17_NoReturnWhileUnsettled ==
  \A p \in Callers :
    Ended(p) => \A i \in DOMAIN detections[p] : detections[p][i].settled

\* Every probe but the awaited one has settled and the call still waits.
C17_WaitsForLastProbe ==
  \E p \in Callers :
    /\ pc[p] = "awaiting"
    /\ Len(detections[p]) >= 2
    /\ InFlight(p, idx[p])
    /\ \A i \in DOMAIN detections[p] : i # idx[p] => detections[p][i].settled

\* C18: a call holds one instance per entry of its snapshot, detect() is
\* called at most once on each (never on one whose constructor threw), each
\* element is awaited at most once, and a call starts from an empty running
\* Map and ends with the fold of its own outcomes alone.
C18_NoRetryFreshStart ==
  \A p \in Callers :
    pc[p] # "idle" =>
      /\ Len(detections[p]) = Len(snapshot[p])
      /\ \A i \in DOMAIN detections[p] :
           detections[p][i].invoked =
             IF detections[p][i].outcome.kind = "ctor" THEN 0 ELSE 1
      /\ Cardinality(Range(foldLog[p])) = Len(foldLog[p])
      /\ foldLog[p] = <<>> => results[p] = NewMap
      /\ Ended(p) => results[p] = RunPass(detections[p]).results

\* A call that began after another call had ended with a failed detector has
\* itself returned, the same detector having returned a result this time.
C18_LaterCallAfterFailure ==
  \E p, q \in Callers :
    /\ p # q
    /\ Resolved(p) /\ Resolved(q)
    /\ pcAtStart[q][p] = "resolved"
    /\ snapshot[p] = snapshot[q]
    /\ \E i \in DOMAIN detections[p] :
         /\ detections[p][i].outcome.kind = "fail"
         /\ Succeeded(detections[q][i])
         /\ MapHas(results[q], detections[q][i].key)

ConstructorThrew(p) ==
  \E i \in DOMAIN detections[p] : detections[p][i].outcome.kind = "ctor"

\* What C19 asks of a key -> value mapping m when a constructor threw in call p.
CtorFailureIsolated(m, p) ==
  ConstructorThrew(p) =>
    /\ \A i \in DOMAIN detections[p] :
         detections[p][i].outcome.kind # "ctor" => Started(p, i)
    /\ Range(foldLog[p]) = DOMAIN detections[p]
    /\ \A k \in Keys : (k \in DOMAIN m) <=> (Contributors(p, k) # {})
    /\ \A k \in Keys : \A i \in Best(p, k) :
         Best(p, k) = {i} => m[k] = detections[p][i].outcome.value

\* C19: when a constructor throws, the call does not reject, every other
\* class is still instantiated and probed, and the other detectors'
\* contributions appear in the returned mapping.
C19_CtorFailureIsolated ==
  \A p \in Callers :
    /\ ConstructorThrew(p) => pc[p] # "rejected"
    /\ Resolved(p) => CtorFailureIsolated(returned[p], p)

\* The isolation itself is kept by the loop: the same holds of the running Map.
RunningMapCtorIsolated ==
  \A p \in Callers :
    /\ ConstructorThrew(p) => pc[p] # "rejected"
    /\ Resolved(p) => CtorFailureIsolated(ValueView(results[p]), p)

\* C20: under Fairness (every probe settles, a resumable loop is resumed) a
\* call that waits returns in the end, having run one loop iteration per
\* element of detections.
C20_CallReturns ==
  \A p \in SoleCaller :
    (pc[p] = "awaiting") ~>
      (Resolved(p) /\ foldLog[p] = InOrder(Len(detections[p])))

\* A call has returned over a result, a missing result and a failure.
C20_ReturnedOverAllOutcomes ==
  \E p \in Callers :
    /\ Resolved(p)
    /\ Len(foldLog[p]) = Len(detections[p])
    /\ \A kd \in {"result", "none", "fail"} :
         \E i \in DOMAIN detections[p] : detections[p][i].outcome.kind = kd

\* The entry of key k in a running Map: absent, or the stored result.
EntryOf(res, k) ==
  IF MapHas(res, k) THEN [present |-> TRUE, data |-> MapGet(res, k)]
  ELSE [present |-> FALSE]

\* What a returned object holds at key k.
OutputAt(m, k) ==
  IF k \in DOMAIN m THEN [present |-> TRUE, value |-> m[k]] ELSE [present |-> FALSE]

\* The outcomes call p has folded so far, in loop order.
Folded(p) == [n \in 1..Len(foldLog[p]) |-> detections[p][foldLog[p][n]]]

\* Those of them whose detector claims key k.
FoldedFor(p, k) == SelectSeq(Folded(p), LAMBDA d : d.key = k)

\* C21: a loop iteration that folds an outcome for key k leaves the running
\* entry (presence, value and accuracy) of every other key as it is; and when
\* the call has returned, the running entry of a key is the fold of the
\* outcomes for that key alone, and the returned object at a key is what the
\* call returns on those outcomes alone.
C21_CrossKeyIndependent ==
  /\ [][\A p \in Callers :
          (pc[p] = "awaiting" /\ foldLog'[p] # foldLog[p]) =>
            \A k \in Keys :
              k # detections[p][Awaited(p)].key =>
                EntryOf(results'[p], k) = EntryOf(results[p], k)]_vars
  /\ [](\A p \in Callers :
          Resolved(p) =>
            \A k \in Keys :
              /\ EntryOf(results[p], k) = EntryOf(RunPass(FoldedFor(p, k)).results, k)
              /\ OutputAt(returned[p], k)
                   = OutputAt(RunPass(FoldedFor(p, k)).returned, k))

\* A call has folded a result for one key and then a result for another key,
\* and the running Map holds both.
C21_TwoKeysFolded ==
  \E p \in Callers :
    /\ \A k \in Keys : MapHas(results[p], k)
    /\ \E n \in 2..Len(foldLog[p]) :
         /\ Succeeded(Folded(p)[n]) /\ Succeeded(Folded(p)[n - 1])
         /\ Folded(p)[n].key # Folded(p)[n - 1].key

\* C22: a step of a call (its launch, the settling of a probe, a loop
\* iteration, its return) leaves the registry as it is, whatever the
\* outcomes; the registry changes only by an add, which appends its argument.
C22_OnlyAddMutatesRegistry ==
  [][/\ (pc' # pc \/ detections' # detections \/ foldLog' # foldLog) =>
          registry' = registry
     /\ registry' # registry =>
          \E c \in DetectorClasses :
            registry' = Append(registry, c) /\ added' = Append(added, c)]_vars

\* A call over the full registry has returned after a constructor threw, a
\* probe failed and a probe returned a result, and the registry is what it
\* was when the call began.
C22_RegistryKeptOverPass ==
  \E p \in Callers :
    /\ Resolved(p)
    /\ Len(snapshot[p]) = MaxRegistry
    /\ registry = snapshot[p]
    /\ \A kd \in {"ctor", "fail", "result"} :
         \E i \in DOMAIN detections[p] : detections[p][i].outcome.kind = kd

\* C23: a loop iteration of a call keeps every key of the running Map and
\* does not lower the accuracy stored for any of them; when the awaited
\* outcome is a failure or no result, the running Map is left as it is.
C23_RunningMapMonotone ==
  [][\A p \in Callers :
       (pc[p] = "awaiting" /\ foldLog'[p] # foldLog[p]) =>
         /\ \A k \in Keys :
              MapHas(results[p], k) =>
                /\ MapHas(results'[p], k)
                /\ MapGet(results[p], k).accuracy <= MapGet(results'[p], k).accuracy
         /\ ~Succeeded(detections[p][Awaited(p)]) => results'[p] = results[p]]_vars

\* A call has folded a result, then a less accurate result for the same key,
\* and a failure or an empty outcome, and the running Map holds the first.
C23_LowerAccuracyFolded ==
  \E p \in Callers :
    /\ \E n, m \in DOMAIN Folded(p) :
         /\ n < m
         /\ Succeeded(Folded(p)[n]) /\ Succeeded(Folded(p)[m])
         /\ Folded(p)[n].key = Folded(p)[m].key
         /\ Folded(p)[m].outcome.accuracy < Folded(p)[n].outcome.accuracy
         /\ MapGet(results[p], Folded(p)[n].key) = Folded(p)[n].outcome
    /\ \E n \in DOMAIN Folded(p) : ~Succeeded(Folded(p)[n])

\* ---------------------------------------------- HelmRepoManager: actions
\* Mutant: repositories() without its try / catch.
CatchRethrows(kind) == [pc |-> "rejected", result |-> "none"]

\* catch (error) { logger.error(...); return []; } and every enclosing
\* `return await this.repositories()` passing that value on.
Catch(kind) == [pc |-> "resolved", result |-> Resolution(kind, <<>>)]

\* An awaited step of call p failed with an error that reaches the catch.
HelmFail(p, step) ==
  LET c == Catch(helmKind[p])
  IN  /\ helmPc' = [helmPc EXCEPT ![p] = c.pc]
      /\ helmResult' = [helmResult EXCEPT ![p] = c.result]
      /\ helmFailures' = [helmFailures EXCEPT ![p] = @ \cup {step}]
      /\ helmNesting' = [helmNesting EXCEPT ![p] = 0]

\* readConfig() is entered: readFile(this.helmEnv.HELM_REPOSITORY_CONFIG) is
\* called; wasUpdated tells whether an update() has resolved by then.
StartReadConfig(p, wasUpdated) ==
  /\ helmPc' = [helmPc EXCEPT ![p] = "readConfig"]
  /\ earlyRead' = (earlyRead \/ ~wasUpdated)

\* repositories() or repo(name) is called: ensureInitialized() sets the logger
\* and awaits helmCli.ensureBinary().
HelmCall(p, kind) ==
  /\ helmPc[p] = "idle"
  /\ helmPc' = [helmPc EXCEPT ![p] = "ensureBinary"]
  /\ helmKind' = [helmKind EXCEPT ![p] = kind]
  /\ helmNesting' = [helmNesting EXCEPT ![p] = 1]
  /\ helmResult' = [helmResult EXCEPT ![p] = "none"]
  /\ helmFailures' = [helmFailures EXCEPT ![p] = {}]
  /\ UNCHANGED <<helmEnv, configFile, envParsed, updatesRun, updated, earlyRead>>
  /\ UNCHANGED <<detectorVars, podVars>>

\* helmCli.ensureBinary() settles: on success `if (!this.helmEnv)` is
\* evaluated; parseHelmEnv() is called, or ensureInitialized() is over and
\* readConfig() begins.
EnsureBinarySettles(p, ok) ==
  /\ helmPc[p] = "ensureBinary"
  /\ IF ~ok
       THEN HelmFail(p, "ensureBinary") /\ UNCHANGED earlyRead
       ELSE /\ IF helmEnv = "null"
                 THEN helmPc' = [helmPc EXCEPT ![p] = "parseHelmEnv"]
                      /\ UNCHANGED earlyRead
                 ELSE StartReadConfig(p, updated)
            /\ UNCHANGED <<helmResult, helmFailures, helmNesting>>
  /\ UNCHANGED <<helmEnv, configFile, helmKind, envParsed, updatesRun, updated>>
  /\ UNCHANGED <<detectorVars, podVars>>

\* parseHelmEnv() settles: on success this.helmEnv is assigned and update()
\* is called.
ParseHelmEnvSettles(p, ok) ==
  /\ helmPc[p] = "parseHelmEnv"
  /\ IF ~ok
       THEN HelmFail(p, "parseHelmEnv") /\ UNCHANGED <<helmEnv, envParsed, updatesRun>>
       ELSE /\ helmEnv' = "set"
            /\ envParsed' = envParsed + 1
            /\ updatesRun' = updatesRun + 1
            /\ helmPc' = [helmPc EXCEPT ![p] = "update"]
            /\ UNCHANGED <<helmResult, helmFailures, helmNesting>>
  /\ UNCHANGED <<configFile, helmKind, updated, earlyRead>>
  /\ UNCHANGED <<detectorVars, podVars>>

\* update() (helm repo update) settles: on success ensureInitialized() is
\* over and readConfig() begins.
UpdateSettles(p, ok) ==
  /\ helmPc[p] = "update"
  /\ IF ~ok
       THEN HelmFail(p, "update") /\ UNCHANGED <<updated, earlyRead>>
       ELSE /\ updated' = TRUE
            /\ StartReadConfig(p, TRUE)
            /\ UNCHANGED <<helmResult, helmFailures, helmNesting>>
  /\ UNCHANGED <<helmEnv, configFile, helmKind, envParsed, updatesRun>>
  /\ UNCHANGED <<detectorVars, podVars>>

\* readConfig() settles with the file as it is: no list makes
\* repositories.length throw; an empty list makes the call add the default
\* repo; otherwise the list is returned with the cache paths.
ReadConfigSettles(p) ==
  /\ helmPc[p] = "readConfig"
  /\ LET config == ReadConfig(configFile)
         swallowed == IF configFile.kind = "unreadable" THEN {"readConfig"} ELSE {}
     IN  IF ~config.hasList
           THEN HelmFail(p, "length")
           ELSE IF Len(config.repositories) = 0
             THEN /\ helmPc' = [helmPc EXCEPT ![p] = "addRepo"]
                  /\ helmFailures' = [helmFailures EXCEPT ![p] = @ \cup swallowed]
                  /\ UNCHANGED <<helmResult, helmNesting>>
             ELSE /\ helmPc' = [helmPc EXCEPT ![p] = "resolved"]
                  /\ helmResult' = [helmResult EXCEPT ![p] =
                        Resolution(helmKind[p], WithCachePath(config.repositories))]
                  /\ helmNesting' = [helmNesting EXCEPT ![p] = 0]
                  /\ UNCHANGED helmFailures
  /\ UNCHANGED <<helmEnv, configFile, helmKind, envParsed, updatesRun, updated, earlyRead>>
  /\ UNCHANGED <<detectorVars, podVars>>

\* The frames open once `return await this.repositories()` has been entered;
\* they are counted up to MaxNesting.
Nested(n) == IF n < MaxNesting THEN n + 1 ELSE MaxNesting

\* addRepo(bitnami) settles: on success (wrote tells whether the file the
\* manager reads now lists the repo) repositories() calls itself.
AddRepoSettles(p, ok, wrote) ==
  /\ helmPc[p] = "addRepo"
  /\ IF ~ok
       THEN /\ ~wrote
            /\ HelmFail(p, "addRepo")
            /\ UNCHANGED configFile
       ELSE /\ configFile' = IF wrote THEN WithRepo(configFile, DefaultRepo) ELSE configFile
            /\ helmPc' = [helmPc EXCEPT ![p] = "ensureBinary"]
            /\ helmNesting' = [helmNesting EXCEPT ![p] = Nested(@)]
            /\ UNCHANGED <<helmResult, helmFailures>>
  /\ UNCHANGED <<helmEnv, helmKind, envParsed, updatesRun, updated, earlyRead>>
  /\ UNCHANGED <<detectorVars, podVars>>

\* The caller has taken the outcome of its call.
HelmCollect(p) ==
  /\ helmPc[p] \in {"resolved", "rejected"}
  /\ helmPc' = [helmPc EXCEPT ![p] = "idle"]
  /\ helmKind' = [helmKind EXCEPT ![p] = [method |-> "none"]]
  /\ helmResult' = [helmResult EXCEPT ![p] = "none"]
  /\ helmFailures' = [helmFailures EXCEPT ![p] = {}]
  /\ UNCHANGED <<helmEnv, configFile, helmNesting, envParsed, updatesRun, updated, earlyRead>>
  /\ UNCHANGED <<detectorVars, podVars>>

\* addCustomRepo(repo) has run: the file lists the repo.
AddCustomRepo(name) ==
  /\ configFile' = WithRepo(configFile, name)
  /\ configFile' # configFile
  /\ UNCHANGED <<helmEnv, helmPc, helmKind, helmNesting, helmResult, helmFailures,
                 envParsed, updatesRun, updated, earlyRead>>
  /\ UNCHANGED <<detectorVars, podVars>>

\* removeRepo(repo) has run: the file no longer lists the repo.
RemoveRepo(name) ==
  /\ configFile.kind = "list"
  /\ configFile' = WithoutRepo(configFile, name)
  /\ configFile' # configFile
  /\ UNCHANGED <<helmEnv, helmPc, helmKind, helmNesting, helmResult, helmFailures,
                 envParsed, updatesRun, updated, earlyRead>>
  /\ UNCHANGED <<detectorVars, podVars>>

\* The file is replaced or removed outside the manager.
ConfigDamaged(file) ==
  /\ configFile # file
  /\ configFile' = file
  /\ UNCHANGED <<helmEnv, helmPc, helmKind, helmNesting, helmResult, helmFailures,
                 envParsed, updatesRun, updated, earlyRead>>
  /\ UNCHANGED <<detectorVars, podVars>>

NextHelm ==
  \/ \E p \in HelmCallers, kind \in HelmMethods : HelmCall(p, kind)
  \/ \E p \in HelmCallers, ok \in BOOLEAN : EnsureBinarySettles(p, ok)
  \/ \E p \in HelmCallers, ok \in BOOLEAN : ParseHelmEnvSettles(p, ok)
  \/ \E p \in HelmCallers, ok \in BOOLEAN : UpdateSettles(p, ok)
  \/ \E p \in HelmCallers : ReadConfigSettles(p)
  \/ \E p \in HelmCallers, ok, wrote \in BOOLEAN : AddRepoSettles(p, ok, wrote)
  \/ \E p \in HelmCallers : HelmCollect(p)
  \/ \E name \in RepoNames : AddCustomRepo(name)
  \/ \E name \in RepoNames : RemoveRepo(name)
  \/ \E file \in DamagedConfigs : ConfigDamaged(file)

SpecHelm == Init /\ [][NextHelm]_vars

\* A step of call p: the operation it awaits settles.
HelmProgress(p) ==
  \/ \E ok \in BOOLEAN : EnsureBinarySettles(p, ok)
  \/ \E ok \in BOOLEAN : ParseHelmEnvSettles(p, ok)
  \/ \E ok \in BOOLEAN : UpdateSettles(p, ok)
  \/ ReadConfigSettles(p)
  \/ \E ok, wrote \in BOOLEAN : AddRepoSettles(p, ok, wrote)

\* One caller, whose calls follow one another, and a file that nothing but
\* the manager's own `helm repo add` writes.
HelmSoleCaller == {1}

NextHelmSole ==
  \/ \E p \in HelmSoleCaller, kind \in HelmMethods : HelmCall(p, kind)
  \/ \E p \in HelmSoleCaller, ok \in BOOLEAN : EnsureBinarySettles(p, ok)
  \/ \E p \in HelmSoleCaller, ok \in BOOLEAN : ParseHelmEnvSettles(p, ok)
  \/ \E p \in HelmSoleCaller, ok \in BOOLEAN : UpdateSettles(p, ok)
  \/ \E p \in HelmSoleCaller : ReadConfigSettles(p)
  \/ \E p \in HelmSoleCaller, ok, wrote \in BOOLEAN : AddRepoSettles(p, ok, wrote)
  \/ \E p \in HelmSoleCaller : HelmCollect(p)

\* Every helm process and every file read that a call awaits settles in the
\* end, and the continuation is then run.
HelmFairness == \A p \in HelmSoleCaller : WF_vars(HelmProgress(p))

SpecHelmLive == Init /\ [][NextHelmSole]_vars /\ HelmFairness

HelmInFlight(p) == helmPc[p] \notin {"idle", "resolved", "rejected"}

HelmReturned(p) == helmPc[p] = "resolved"

\* C24: under HelmFairness (every awaited helm process and file read
\* settles) a call of repositories() or repo() that is in flight returns in
\* the end, also when the file stays unreadable or empty after the add.
C24_RepositoriesReturns ==
  \A p \in HelmSoleCaller : HelmInFlight(p) ~> HelmReturned(p)

\* C25 as stated: a call does not reject, and when any of its steps failed
\* (initialization, the read of the config, the add of the default repo) it
\* has returned an empty list.
C25_AnyFailureReturnsEmpty ==
  \A p \in HelmCallers :
    /\ helmPc[p] # "rejected"
    /\ (HelmReturned(p) /\ helmKind[p].method = "repositories"
          /\ helmFailures[p] # {}) => helmResult[p] = <<>>

\* C25 as amended: a call does not reject; when a step of initialization or
\* the add of the default repo failed, or the config has no repositories
\* list, it has returned an empty list; a failed read of the file alone is
\* taken for an empty config, and the call goes on to add the default repo.
C25_NeverRejects ==
  \A p \in HelmCallers :
    /\ helmPc[p] # "rejected"
    /\ (HelmReturned(p) /\ helmKind[p].method = "repositories"
          /\ helmFailures[p] \ {"readConfig"} # {}) => helmResult[p] = <<>>
    /\ (HelmInFlight(p) /\ "readConfig" \in helmFailures[p]) =>
          helmFailures[p] = {"readConfig"} /\ helmNesting[p] >= 1
    /\ helmPc[p] = "addRepo" => helmResult[p] = "none"

\* A call whose read of the file failed has added the default repo, read the
\* file again and returned the repo it found.
C25_ReturnedListAfterFailedRead ==
  \E p \in HelmCallers :
    /\ HelmReturned(p)
    /\ helmKind[p].method = "repositories"
    /\ helmFailures[p] = {"readConfig"}
    /\ helmResult[p] # <<>>

\* C26: the helm environment is parsed at most once and helm repo update is
\* run at most once, and HELM_REPOSITORY_CONFIG is never read from helmEnv
\* before an update has completed successfully.
C26_InitializedOnce ==
  /\ envParsed <= 1
  /\ updatesRun <= 1
  /\ ~earlyRead

\* --------------------------------------------------- PodDetails: actions
\* componentDidMount(): the reaction on this.props.object is installed.
ComponentDidMount ==
  /\ ~mounted
  /\ mounted' = TRUE
  /\ UNCHANGED <<object, metrics, containerMetrics, loadPc, loadPod>>
  /\ UNCHANGED <<detectorVars, helmVars>>

\* The mounted component gets another pod as props.object, and the reaction
\* runs its effect.
SetObject(pod) ==
  /\ mounted
  /\ pod # object
  /\ object' = pod
  /\ metrics' = Null
  /\ containerMetrics' = Null
  /\ UNCHANGED <<mounted, loadPc, loadPod>>
  /\ UNCHANGED <<detectorVars, helmVars>>

\* loadMetrics() is called: `pod` is taken from this.props and the first
\* request is sent.
LoadMetrics(l) ==
  /\ loadPc[l] = "idle"
  /\ loadPod' = [loadPod EXCEPT ![l] = object]
  /\ loadPc' = [loadPc EXCEPT ![l] = "metrics"]
  /\ UNCHANGED <<mounted, object, metrics, containerMetrics>>
  /\ UNCHANGED <<detectorVars, helmVars>>

\* The first request settles: this.metrics is assigned and the second request
\* is sent; a failed request ends loadMetrics() with a rejection.
MetricsSettle(l, ok) ==
  /\ loadPc[l] = "metrics"
  /\ IF ok
       THEN /\ metrics' = GetMetricsForPods(loadPod[l], "pod")
            /\ loadPc' = [loadPc EXCEPT ![l] = "containerMetrics"]
            /\ UNCHANGED loadPod
       ELSE /\ loadPc' = [loadPc EXCEPT ![l] = "idle"]
            /\ loadPod' = [loadPod EXCEPT ![l] = "none"]
            /\ UNCHANGED metrics
  /\ UNCHANGED <<mounted, object, containerMetrics>>
  /\ UNCHANGED <<detectorVars, helmVars>>

\* The second request settles: this.containerMetrics is assigned and
\* loadMetrics() is over.
ContainerMetricsSettle(l, ok) ==
  /\ loadPc[l] = "containerMetrics"
  /\ containerMetrics' =
       IF ok THEN GetMetricsForPods(loadPod[l], "container, namespace")
       ELSE containerMetrics
  /\ loadPc' = [loadPc EXCEPT ![l] = "idle"]
  /\ loadPod' = [loadPod EXCEPT ![l] = "none"]
  /\ UNCHANGED <<mounted, object, metrics>>
  /\ UNCHANGED <<detectorVars, helmVars>>

NextPod ==
  \/ ComponentDidMount
  \/ \E pod \in Pods : SetObject(pod)
  \/ \E l \in Loads : LoadMetrics(l)
  \/ \E l \in Loads, ok \in BOOLEAN : MetricsSettle(l, ok)
  \/ \E l \in Loads, ok \in BOOLEAN : ContainerMetricsSettle(l, ok)

SpecPod == Init /\ [][NextPod]_vars

Loaded(m) == m.kind = "metrics"

\* C27: the metrics and the container metrics the component holds are those
\* of the pod it shows, and both are of the same pod.
C27_NoStaleMetrics ==
  /\ Loaded(metrics) => metrics.pod = object
  /\ Loaded(containerMetrics) => containerMetrics.pod = object
  /\ (Loaded(metrics) /\ Loaded(containerMetrics)) =>
       metrics.pod = containerMetrics.pod

\* The reaction itself does what C27 says of it: a change of props.object
\* leaves both fields null in the same step.
ReactionResetsMetrics ==
  [][object' # object => metrics' = Null /\ containerMetrics' = Null]_vars

====
